---- MODULE Spec2Model ----
(***************************************************************************)
(* Lumber user service (src/main.go).  The file holds two variants of the  *)
(* same program: variant "A" (lines 1-173) keeps the users in memory only, *)
(* variant "B" (lines 175-432) mirrors create and delete to a MongoDB      *)
(* collection and loads the collection into memory at startup.             *)
(*                                                                         *)
(* Request handlers run as goroutines; every handler takes the mutex mu    *)
(* and releases it with a deferred Unlock.  Each handler is modelled as a  *)
(* process whose pc walks through the statements that touch shared state.  *)
(***************************************************************************)
EXTENDS Integers, Sequences, FiniteSets, Bags, TLC

\* ---------------------------------------------------------------- bounds
NumHandlers == 2          \* concurrent request goroutines
MaxNextID   == 4          \* creates are accepted while nextID < MaxNextID
MaxInit     == 1          \* documents in the mirror when the process starts
MaxInitID   == 2          \* largest id a preexisting mirror document carries
MaxReqID    == 2          \* largest id a client asks for

Handlers == 1..NumHandlers
Variants == {"A", "B"}

\* HTTP status codes used by the handlers; Aborted stands for a connection
\* closed by net/http after it recovered a panic of the handler.
StatusOK        == 200
StatusCreated   == 201
StatusNoContent == 204
StatusBadRequest == 400
StatusNotFound  == 404
StatusInternalServerError == 500
Aborted         == 0

\* type User struct { ID int; Name string; Age int }
User(id, name, age) == [ID |-> id, Name |-> name, Age |-> age]

\* the zero value of User: what Decode leaves in fields the body omits
ZeroUser == User(0, "", 0)

\* request bodies {name, age} a client sends; ForeignID is an id a client
\* puts into an update payload
ForeignID == 9
CreatePayloads == { User(0, "Ann", 30) }
UpdatePayloads == { User(ForeignID, "Ann", 31), User(ForeignID, "Bob", 30) }
ReqIDs    == 1..MaxReqID

NoReq  == [op |-> "none", id |-> 0, user |-> ZeroUser]
NoResp == [status |-> -1, body |-> <<>>]
Resp(st, b) == [status |-> st, body |-> b]

VARIABLES
  variant,   \* which of the two programs of src/main.go runs
  phase,     \* main: "startup", "serving", or "dead" after log.Fatal
  users,     \* var users []User
  nextID,    \* var nextID int
  mu,        \* var mu sync.Mutex: 0 when free, else the handler holding it
  mirror,    \* documents of UsersDB.Users, in natural (insertion) order
  pc,        \* per handler: the statement it is at
  req,       \* per handler: the decoded request (query id and body)
  resp,      \* per handler: what it wrote to the ResponseWriter
  pre,       \* users, nextID and mirror as they were when mu was acquired
  issued,    \* history: ids returned with 201, in the order returned
  burned,    \* history: ids drawn by creates that answered 500
  live,      \* history: ids returned with 201 and not since deleted with 204
  mcalls     \* per handler: mirror calls its current request has made

vars == <<variant, phase, users, nextID, mu, mirror, pc, req, resp, pre,
          issued, burned, live, mcalls>>

\* ------------------------------------------------------- pure helpers
Range(s) == { s[i] : i \in 1..Len(s) }
IDs(s)   == { s[i].ID : i \in 1..Len(s) }
Matches(s, id) == { i \in 1..Len(s) : s[i].ID = id }
Min(S)   == CHOOSE x \in S : \A y \in S : x <= y
RemoveAt(s, i) == SubSeq(s, 1, i - 1) \o SubSeq(s, i + 1, Len(s))

\* multiset of the ids held by a sequence of users
IdBag(s) == [ k \in IDs(s) |-> Cardinality(Matches(s, k)) ]

\* getUser: for _, user := range users { if user.ID == id { Encode; return } }
GetUser(us, id) ==
  IF Matches(us, id) = {} THEN Resp(StatusNotFound, <<>>)
  ELSE Resp(StatusOK, << us[Min(Matches(us, id))] >>)

\* getUsers: json.NewEncoder(w).Encode(users)
ListAll(us) == Resp(StatusOK, us)

\* variation: the record also takes the ID of the payload
UpdateFirst_TakesPayloadID(us, id, upd) ==
  IF Matches(us, id) = {} THEN us
  ELSE LET i == Min(Matches(us, id))
       IN  [us EXCEPT ![i] = User(upd.ID, upd.Name, upd.Age)]

\* updateUser's loop: the first record whose ID matches gets Name and Age
UpdateFirst(us, id, upd) ==
  IF Matches(us, id) = {} THEN us
  ELSE LET i == Min(Matches(us, id))
       IN  [us EXCEPT ![i] = User(us[i].ID, upd.Name, upd.Age)]

\* deleteUser of variant A: remove the first match and return
DeleteFirst(us, id) ==
  IF Matches(us, id) = {} THEN us ELSE RemoveAt(us, Min(Matches(us, id)))

\* deleteUser of variant B: for i, user := range users { if user.ID == id {
\*   users = append(users[:i], users[i+1:]...) } }   (no break)
\* The range runs over the slice header taken before the loop (n elements)
\* and reads the shared backing array arr, which append rewrites in place;
\* len is len(users) now.  i is 1-based.  users[i+1:] panics when i+1 (0-based)
\* exceeds len(users).
RECURSIVE RangeDelete(_, _, _, _)
RangeDelete(arr, len, i, id) ==
  IF i > Len(arr) THEN [users |-> SubSeq(arr, 1, len), panic |-> FALSE]
  ELSE IF arr[i].ID # id THEN RangeDelete(arr, len, i + 1, id)
  ELSE IF i > len THEN [users |-> SubSeq(arr, 1, len), panic |-> TRUE]
  ELSE RangeDelete(SubSeq(arr, 1, i - 1) \o SubSeq(arr, i + 1, len)
                     \o SubSeq(arr, len, Len(arr)),
                   len - 1, i + 1, id)

DeleteLoop(us, id) == RangeDelete(us, Len(us), 1, id)

\* collection.InsertOne: the document is appended to the collection
InsertOne(coll, u) == Append(coll, u)

\* collection.DeleteOne(filter {"id": id}): the first matching document goes
DeleteOne(coll, id) ==
  IF Matches(coll, id) = {} THEN [coll |-> coll, DeletedCount |-> 0]
  ELSE [coll |-> RemoveAt(coll, Min(Matches(coll, id))), DeletedCount |-> 1]

\* collection.Find(ctx, bson.D{}) with cursor.Next: every document, in order
FetchAll(coll) == coll

\* --------------------------------------------------------------- start
\* documents a mirror can hold when the process starts: written by creates
\* of an earlier run, so each carries its own id
InitDocs ==
  { User(k, u.Name, u.Age) : k \in 1..MaxInitID, u \in CreatePayloads }

InitMirrors ==
  { s \in UNION { [1..n -> InitDocs] : n \in 0..MaxInit } :
      \A i, j \in 1..Len(s) : i # j => s[i].ID # s[j].ID }

NoPre == [users |-> <<>>, nextID |-> 0, mirror |-> <<>>]

Init ==
  /\ variant \in Variants
  /\ phase = "startup"
  /\ users = <<>>
  /\ nextID = 1
  /\ mu = 0
  /\ mirror \in (IF variant = "B" THEN InitMirrors ELSE {<<>>})
  /\ pc = [p \in Handlers |-> "idle"]
  /\ req = [p \in Handlers |-> NoReq]
  /\ resp = [p \in Handlers |-> NoResp]
  /\ pre = NoPre
  /\ issued = <<>>
  /\ burned = <<>>
  /\ live = {}
  /\ mcalls = [p \in Handlers |-> 0]

\* variation: the counter is set past the largest loaded id
Startup_CounterPastLoaded ==
  /\ phase = "startup"
  /\ phase' = "serving"
  /\ users' = (IF variant = "B" THEN users \o FetchAll(mirror) ELSE users)
  /\ nextID' = (IF IDs(users') = {} THEN nextID
                ELSE 1 + CHOOSE k \in IDs(users') : \A j \in IDs(users') : j <= k)
  /\ UNCHANGED <<variant, mu, mirror, pc, req, resp, pre,
                 issued, burned, live, mcalls>>

\* main up to ListenAndServe.  Variant B appends every fetched document to
\* users; nextID is not touched.
Startup ==
  /\ phase = "startup"
  /\ phase' = "serving"
  /\ users' = (IF variant = "B" THEN users \o FetchAll(mirror) ELSE users)
  /\ UNCHANGED <<variant, nextID, mu, mirror, pc, req, resp, pre,
                 issued, burned, live, mcalls>>

\* main of variant B: Connect, Ping, Find or the cursor fails: log.Fatal
StartupFail ==
  /\ phase = "startup"
  /\ variant = "B"
  /\ phase' = "dead"
  /\ UNCHANGED <<variant, users, nextID, mu, mirror, pc, req, resp, pre,
                 issued, burned, live, mcalls>>

\* ------------------------------------------------------------ requests
\* well-formed requests a client can send.  DELETE carries the id as the
\* query parameter in variant A and as the id field of a JSON body in B.
Requests ==
  { [op |-> "list", id |-> 0, user |-> ZeroUser] }
  \cup { [op |-> "get", id |-> k, user |-> ZeroUser] : k \in ReqIDs }
  \cup { [op |-> "create", id |-> 0, user |-> u] : u \in CreatePayloads }
  \cup { [op |-> "update", id |-> k, user |-> u] :
           k \in ReqIDs, u \in UpdatePayloads }
  \cup (IF variant = "B"
        THEN { [op |-> "delete", id |-> 0, user |-> User(k, "", 0)] :
                 k \in ReqIDs }
        ELSE { [op |-> "delete", id |-> k, user |-> ZeroUser] : k \in ReqIDs })

\* number of creates in flight that have not drawn their id yet
PendingCreates ==
  Cardinality({ q \in Handlers :
                  req[q].op = "create" /\ pc[q] \in {"lock", "c_id"} })

\* id the delete handler works on: the query parameter in variant A
\* (id, err := strconv.Atoi(idStr)), the ID field of the decoded body in
\* variant B (id := user.ID)
DeleteID(r) == IF variant = "B" THEN r.user.ID ELSE r.id

\* first statement after mu.Lock() for each operation
FirstPC(op) ==
  CASE op = "list"   -> "l_enc"
    [] op = "get"    -> "g_scan"
    [] op = "create" -> "c_id"
    [] op = "update" -> "u_scan"
    [] op = "delete" -> (IF variant = "B" THEN "d_del" ELSE "d_scan")

CriticalPCs ==
  {"l_enc", "g_scan", "c_id", "c_inc", "c_ins", "c_app", "u_scan",
   "d_scan", "d_del", "d_loop", "unlock"}

\* the request is routed and decoded; the handler reaches mu.Lock()
Receive(p) ==
  /\ phase = "serving"
  /\ pc[p] = "idle"
  /\ \E r \in Requests :
       /\ r.op = "create" => nextID + PendingCreates < MaxNextID
       /\ req' = [req EXCEPT ![p] = r]
  /\ pc' = [pc EXCEPT ![p] = "lock"]
  /\ UNCHANGED <<variant, phase, users, nextID, mu, mirror, resp, pre,
                 issued, burned, live, mcalls>>

\* strconv.Atoi or Decode fails: 400, the handler returns before mu.Lock()
BadRequest(p) ==
  /\ phase = "serving"
  /\ pc[p] = "idle"
  /\ pc' = [pc EXCEPT ![p] = "ret"]
  /\ resp' = [resp EXCEPT ![p] = Resp(StatusBadRequest, <<>>)]
  /\ UNCHANGED <<variant, phase, users, nextID, mu, mirror, req, pre,
                 issued, burned, live, mcalls>>

\* a handler that never took the lock returns
Return(p) ==
  /\ phase = "serving"
  /\ pc[p] = "ret"
  /\ pc' = [pc EXCEPT ![p] = "idle"]
  /\ resp' = [resp EXCEPT ![p] = NoResp]
  /\ UNCHANGED <<variant, phase, users, nextID, mu, mirror, req, pre,
                 issued, burned, live, mcalls>>

\* variation: the handler enters without waiting for mu to be free
Lock_NoWait(p) ==
  /\ phase = "serving"
  /\ pc[p] = "lock"
  /\ mu' = p
  /\ pre' = [users |-> users, nextID |-> nextID, mirror |-> mirror]
  /\ pc' = [pc EXCEPT ![p] = FirstPC(req[p].op)]
  /\ UNCHANGED <<variant, phase, users, nextID, mirror, req, resp,
                 issued, burned, live, mcalls>>

\* mu.Lock()
Lock(p) ==
  /\ phase = "serving"
  /\ pc[p] = "lock"
  /\ mu = 0
  /\ mu' = p
  /\ pre' = [users |-> users, nextID |-> nextID, mirror |-> mirror]
  /\ pc' = [pc EXCEPT ![p] = FirstPC(req[p].op)]
  /\ UNCHANGED <<variant, phase, users, nextID, mirror, req, resp,
                 issued, burned, live, mcalls>>

\* defer mu.Unlock(); the handler returns and the response is complete
Unlock(p) ==
  /\ phase = "serving"
  /\ pc[p] = "unlock"
  /\ mu' = 0
  /\ pre' = NoPre
  /\ pc' = [pc EXCEPT ![p] = "idle"]
  /\ req' = [req EXCEPT ![p] = NoReq]
  /\ resp' = [resp EXCEPT ![p] = NoResp]
  /\ mcalls' = [mcalls EXCEPT ![p] = 0]
  /\ UNCHANGED <<variant, phase, users, nextID, mirror, issued, burned, live>>

\* a statement of a handler that only writes the response and returns
Reply(p, r) ==
  /\ resp' = [resp EXCEPT ![p] = r]
  /\ pc' = [pc EXCEPT ![p] = "unlock"]

\* getUsers
GetUsers(p) ==
  /\ phase = "serving"
  /\ pc[p] = "l_enc"
  /\ Reply(p, ListAll(users))
  /\ UNCHANGED <<variant, phase, users, nextID, mu, mirror, req, pre,
                 issued, burned, live, mcalls>>

\* getUser
GetUserStep(p) ==
  /\ phase = "serving"
  /\ pc[p] = "g_scan"
  /\ Reply(p, GetUser(users, req[p].id))
  /\ UNCHANGED <<variant, phase, users, nextID, mu, mirror, req, pre,
                 issued, burned, live, mcalls>>

\* variation: the id is taken after the counter was advanced
CreateAssign_AfterIncrement(p) ==
  /\ phase = "serving"
  /\ pc[p] = "c_id"
  /\ req' = [req EXCEPT ![p].user.ID = nextID + 1]
  /\ pc' = [pc EXCEPT ![p] = "c_inc"]
  /\ UNCHANGED <<variant, phase, users, nextID, mu, mirror, resp, pre,
                 issued, burned, live, mcalls>>

\* createUser: user.ID = nextID
CreateAssign(p) ==
  /\ phase = "serving"
  /\ pc[p] = "c_id"
  /\ req' = [req EXCEPT ![p].user.ID = nextID]
  /\ pc' = [pc EXCEPT ![p] = "c_inc"]
  /\ UNCHANGED <<variant, phase, users, nextID, mu, mirror, resp, pre,
                 issued, burned, live, mcalls>>

\* variation: the counter is not advanced
CreateIncr_Forgotten(p) ==
  /\ phase = "serving"
  /\ pc[p] = "c_inc"
  /\ pc' = [pc EXCEPT ![p] = IF variant = "B" THEN "c_ins" ELSE "c_app"]
  /\ UNCHANGED <<variant, phase, users, nextID, mu, mirror, req, resp, pre,
                 issued, burned, live, mcalls>>

\* createUser: nextID++
CreateIncr(p) ==
  /\ phase = "serving"
  /\ pc[p] = "c_inc"
  /\ nextID' = nextID + 1
  /\ pc' = [pc EXCEPT ![p] = IF variant = "B" THEN "c_ins" ELSE "c_app"]
  /\ UNCHANGED <<variant, phase, users, mu, mirror, req, resp, pre,
                 issued, burned, live, mcalls>>

\* createUser of variant B: collection.InsertOne succeeds
CreateInsertOK(p) ==
  /\ phase = "serving"
  /\ pc[p] = "c_ins"
  /\ mirror' = InsertOne(mirror, req[p].user)
  /\ pc' = [pc EXCEPT ![p] = "c_app"]
  /\ mcalls' = [mcalls EXCEPT ![p] = @ + 1]
  /\ UNCHANGED <<variant, phase, users, nextID, mu, req, resp, pre,
                 issued, burned, live>>

\* variation: the record is appended to users before the insert is tried
CreateInsertFail_AppendsFirst(p) ==
  /\ phase = "serving"
  /\ pc[p] = "c_ins"
  /\ users' = Append(users, req[p].user)
  /\ Reply(p, Resp(StatusInternalServerError, <<>>))
  /\ burned' = Append(burned, req[p].user.ID)
  /\ mcalls' = [mcalls EXCEPT ![p] = @ + 1]
  /\ UNCHANGED <<variant, phase, nextID, mu, mirror, req, pre,
                 issued, live>>

\* variation: a failed insert gives the drawn id back to the counter
CreateInsertFail_RestoresCounter(p) ==
  /\ phase = "serving"
  /\ pc[p] = "c_ins"
  /\ nextID' = nextID - 1
  /\ Reply(p, Resp(StatusInternalServerError, <<>>))
  /\ burned' = Append(burned, req[p].user.ID)
  /\ mcalls' = [mcalls EXCEPT ![p] = @ + 1]
  /\ UNCHANGED <<variant, phase, users, mu, mirror, req, pre,
                 issued, live>>

\* variation: a failed insert is tried again
CreateInsertFail_Retries(p) ==
  /\ phase = "serving"
  /\ pc[p] = "c_ins"
  /\ mcalls' = [mcalls EXCEPT ![p] = @ + 1]
  /\ UNCHANGED <<variant, phase, users, nextID, mu, mirror, pc, req, resp,
                 pre, issued, burned, live>>

\* createUser of variant B: collection.InsertOne fails: 500 and return
CreateInsertFail(p) ==
  /\ phase = "serving"
  /\ pc[p] = "c_ins"
  /\ Reply(p, Resp(StatusInternalServerError, <<>>))
  /\ burned' = Append(burned, req[p].user.ID)
  /\ mcalls' = [mcalls EXCEPT ![p] = @ + 1]
  /\ UNCHANGED <<variant, phase, users, nextID, mu, mirror, req, pre,
                 issued, live>>

\* createUser: users = append(users, user); 201 with the record
CreateAppend(p) ==
  /\ phase = "serving"
  /\ pc[p] = "c_app"
  /\ users' = Append(users, req[p].user)
  /\ Reply(p, Resp(StatusCreated, << req[p].user >>))
  /\ issued' = Append(issued, req[p].user.ID)
  /\ live' = live \cup {req[p].user.ID}
  /\ UNCHANGED <<variant, phase, nextID, mu, mirror, req, pre, burned, mcalls>>

\* variation: the update is written through to the mirror as well
UpdateUser_Mirrored(p) ==
  /\ phase = "serving"
  /\ pc[p] = "u_scan"
  /\ users' = UpdateFirst(users, req[p].id, req[p].user)
  /\ mirror' = UpdateFirst(mirror, req[p].id, req[p].user)
  /\ Reply(p, IF Matches(users, req[p].id) = {}
              THEN Resp(StatusNotFound, <<>>)
              ELSE Resp(StatusOK,
                        << users'[Min(Matches(users, req[p].id))] >>))
  /\ UNCHANGED <<variant, phase, nextID, mu, req, pre,
                 issued, burned, live, mcalls>>

\* updateUser
UpdateUser(p) ==
  /\ phase = "serving"
  /\ pc[p] = "u_scan"
  /\ users' = UpdateFirst(users, req[p].id, req[p].user)
  /\ Reply(p, IF Matches(users, req[p].id) = {}
              THEN Resp(StatusNotFound, <<>>)
              ELSE Resp(StatusOK,
                        << users'[Min(Matches(users, req[p].id))] >>))
  /\ UNCHANGED <<variant, phase, nextID, mu, mirror, req, pre,
                 issued, burned, live, mcalls>>

\* deleteUser of variant A
DeleteUserA(p) ==
  /\ phase = "serving"
  /\ pc[p] = "d_scan"
  /\ users' = DeleteFirst(users, DeleteID(req[p]))
  /\ IF Matches(users, DeleteID(req[p])) = {}
     THEN /\ Reply(p, Resp(StatusNotFound, <<>>))
          /\ live' = live
     ELSE /\ Reply(p, Resp(StatusNoContent, <<>>))
          /\ live' = live \ {DeleteID(req[p])}
  /\ UNCHANGED <<variant, phase, nextID, mu, mirror, req, pre,
                 issued, burned, mcalls>>

\* deleteUser of variant B: collection.DeleteOne answers
DeleteOneOK(p) ==
  /\ phase = "serving"
  /\ pc[p] = "d_del"
  /\ LET r == DeleteOne(mirror, DeleteID(req[p]))
     IN  /\ mirror' = r.coll
         /\ IF r.DeletedCount > 0
            THEN /\ pc' = [pc EXCEPT ![p] = "d_loop"]
                 /\ resp' = resp
            ELSE Reply(p, Resp(StatusNotFound, <<>>))
  /\ mcalls' = [mcalls EXCEPT ![p] = @ + 1]
  /\ UNCHANGED <<variant, phase, users, nextID, mu, req, pre,
                 issued, burned, live>>

\* variation: the record is removed from users before DeleteOne is tried
DeleteOneFail_RemovesFirst(p) ==
  /\ phase = "serving"
  /\ pc[p] = "d_del"
  /\ users' = DeleteLoop(users, DeleteID(req[p])).users
  /\ phase' = "dead"
  /\ mcalls' = [mcalls EXCEPT ![p] = @ + 1]
  /\ UNCHANGED <<variant, nextID, mu, mirror, pc, req, resp, pre,
                 issued, burned, live>>

\* deleteUser of variant B: collection.DeleteOne fails: log.Fatal(err)
\* ends the process; deferred calls do not run
DeleteOneFail(p) ==
  /\ phase = "serving"
  /\ pc[p] = "d_del"
  /\ phase' = "dead"
  /\ mcalls' = [mcalls EXCEPT ![p] = @ + 1]
  /\ UNCHANGED <<variant, users, nextID, mu, mirror, pc, req, resp, pre,
                 issued, burned, live>>

\* deleteUser of variant B: the removal loop, then 204.  When the loop
\* panics, users keeps what the loop had assigned, the deferred Unlock still
\* runs and net/http closes the connection without a response.
DeleteLoopStep(p) ==
  /\ phase = "serving"
  /\ pc[p] = "d_loop"
  /\ LET r == DeleteLoop(users, DeleteID(req[p]))
     IN  /\ users' = r.users
         /\ IF r.panic
            THEN /\ Reply(p, Resp(Aborted, <<>>))
                 /\ live' = live
            ELSE /\ Reply(p, Resp(StatusNoContent, <<>>))
                 /\ live' = live \ {DeleteID(req[p])}
  /\ UNCHANGED <<variant, phase, nextID, mu, mirror, req, pre,
                 issued, burned, mcalls>>

Next ==
  \/ Startup
  \/ StartupFail
  \/ \E p \in Handlers :
       \/ Receive(p)
       \/ BadRequest(p)
       \/ Return(p)
       \/ Lock(p)
       \/ Unlock(p)
       \/ GetUsers(p)
       \/ GetUserStep(p)
       \/ CreateAssign(p)
       \/ CreateIncr(p)
       \/ CreateInsertOK(p)
       \/ CreateInsertFail(p)
       \/ CreateAppend(p)
       \/ UpdateUser(p)
       \/ DeleteUserA(p)
       \/ DeleteOneOK(p)
       \/ DeleteOneFail(p)
       \/ DeleteLoopStep(p)

Spec == Init /\ [][Next]_vars

\* ================================================================ claims
\* handlers that hold a complete response of the given operation
Answered(op) == { p \in Handlers : pc[p] = "unlock" /\ req[p].op = op }

\* the sequence has no repeated element
NoRepeats(s) == \A i, j \in 1..Len(s) : i # j => s[i] # s[j]

\* ids drawn from the counter by creates that have not answered yet
InFlightIDs ==
  { req[p].user.ID : p \in { q \in Handlers : pc[q] \in {"c_inc", "c_ins", "c_app"} } }

\* C1: each id returned by a successful create is strictly greater than every
\* id returned by an earlier create, whatever deletes, updates, gets and
\* failed creates happen in between; so no id is issued twice.
C1_ReturnedIdsIncrease ==
  \A i, j \in 1..Len(issued) : i < j => issued[i] < issued[j]

\* two creates returned, a failed create drew an id between them, and the
\* record of the first has been deleted
C1_Witness ==
  /\ Len(issued) = 2
  /\ Len(burned) = 1
  /\ issued[1] < burned[1]
  /\ burned[1] < issued[2]
  /\ issued[1] \notin IDs(users)

\* C2: no two records of the Record Store have the same id, also after a
\* startup bulk load from a non-empty mirror.
C2_UniqueIds ==
  \A i, j \in 1..Len(users) : i # j => users[i].ID # users[j].ID

\* C3 as stated: the ids returned to the callers of create are 1, 2, 3, ...
\* without a gap.
C3_ReturnedIdsConsecutive ==
  \A i \in 1..Len(issued) : issued[i] = i

\* C3 amended: successful creates receive pairwise distinct ids; the ids
\* drawn from the counter, by successful and failed creates together, are
\* each drawn once and form the run 1..nextID-1; only a create whose mirror
\* insert failed leaves an id unreturned.
C3_DrawnIdsConsecutive ==
  /\ NoRepeats(issued)
  /\ NoRepeats(issued \o burned)
  /\ InFlightIDs \cap (Range(issued) \cup Range(burned)) = {}
  /\ Cardinality(InFlightIDs)
       = Cardinality({ q \in Handlers : pc[q] \in {"c_inc", "c_ins", "c_app"} })
  /\ Range(issued) \cup Range(burned) \cup InFlightIDs
       = 1..(IF \E p \in Handlers : pc[p] = "c_inc" THEN nextID ELSE nextID - 1)
  /\ variant = "A" => burned = <<>>

\* one create has answered 201 while another caller's create waits for mu,
\* after an earlier create failed at the mirror
C3_Witness ==
  \E p, q \in Handlers :
    /\ p \in Answered("create")
    /\ resp[p].status = StatusCreated
    /\ req[q].op = "create"
    /\ pc[q] = "lock"
    /\ burned # <<>>

\* C4: at most one handler is between mu.Lock() and its deferred Unlock, and
\* that handler is the holder of mu, so the statements of two operations on
\* users and nextID never interleave.
C4_MutualExclusion ==
  \A p \in Handlers :
    pc[p] \in CriticalPCs =>
      /\ mu = p
      /\ \A q \in Handlers \ {p} : pc[q] \notin CriticalPCs

\* a create sits between its mirror insert and its append while a list
\* request waits for the lock
C4_Witness ==
  \E p, q \in Handlers :
    /\ pc[p] = "c_app"
    /\ variant = "B"
    /\ pc[q] = "lock"
    /\ req[q].op = "list"

\* C5: a get of an id that a create returned and no delete has since
\* answered 204 for answers 200 with the record of that id.
C5_GetAfterCreate ==
  \A p \in Answered("get") :
    req[p].id \in live =>
      /\ resp[p].status = StatusOK
      /\ resp[p].body[1].ID = req[p].id

\* C6: after a delete answered 204, get of that id is NotFound and the list
\* is the list before the delete without the one record of that id, the
\* others in their order.
C6_DeleteRemovesTheRecord ==
  \A p \in Answered("delete") :
    resp[p].status = StatusNoContent =>
      /\ GetUser(users, DeleteID(req[p])).status = StatusNotFound
      /\ Len(users) = Len(pre.users) - 1
      /\ ListAll(users).body
           = SelectSeq(pre.users, LAMBDA u : u.ID # DeleteID(req[p]))

\* C7: an update answered 200 gives the record of that id the name and age
\* of the payload and changes nothing else: not its id (the payload's id is
\* ignored), no other record, not the order, not the counter; a get of the
\* id then returns the new name and age.
C7_UpdateFrame ==
  \A p \in Answered("update") :
    resp[p].status = StatusOK =>
      LET i   == Min(Matches(pre.users, req[p].id))
          new == User(pre.users[i].ID, req[p].user.Name, req[p].user.Age)
      IN  /\ pre.users[i].ID = req[p].id
          /\ Len(users) = Len(pre.users)
          /\ users[i] = new
          /\ \A j \in 1..Len(users) : j # i => users[j] = pre.users[j]
          /\ nextID = pre.nextID
          /\ resp[p].body = << new >>
          /\ GetUser(users, req[p].id) = Resp(StatusOK, << new >>)

\* an update changed the name of the second of two records, with a payload
\* id that differs from the record's id
C7_Witness ==
  \E p \in Answered("update") :
    /\ resp[p].status = StatusOK
    /\ Len(users) >= 2
    /\ Min(Matches(pre.users, req[p].id)) = 2
    /\ pre.users[2].Name # users[2].Name
    /\ req[p].user.ID # req[p].id
    /\ req[p].user.ID # 0

\* C8: a create whose mirror insert failed answers 500 and leaves users as
\* it was when the create took the lock.
C8_FailedCreateLeavesUsers ==
  \A p \in Answered("create") :
    (variant = "B" /\ (mirror = pre.mirror \/ resp[p].status # StatusCreated)) =>
      /\ resp[p].status = StatusInternalServerError
      /\ mirror = pre.mirror
      /\ users = pre.users

\* a create failed at the mirror on a store that holds a record
C8_Witness ==
  \E p \in Answered("create") :
    /\ resp[p].status = StatusInternalServerError
    /\ users # <<>>
    /\ nextID = pre.nextID + 1

\* C9: when DeleteOne fails, the delete has removed nothing from users (the
\* process ends at log.Fatal with users as the delete found it).
C9_FailedDeleteRemovesNothing ==
  \A p \in Handlers :
    (phase = "dead" /\ pc[p] = "d_del") =>
      /\ users = pre.users
      /\ mirror = pre.mirror

\* DeleteOne failed for an id that users holds
C9_Witness ==
  \E p \in Handlers :
    /\ phase = "dead"
    /\ pc[p] = "d_del"
    /\ DeleteID(req[p]) \in IDs(users)

\* C10: whenever no operation is in progress (after startup, after each
\* completed create or delete) users and the mirror hold the same multiset
\* of ids.
C10_MemoryMatchesMirror ==
  (variant = "B" /\ phase = "serving" /\ mu = 0) =>
    IdBag(users) = IdBag(mirror)

\* C11: an update, answered 200 or 404, leaves the mirror as it was when the
\* update took the lock; after a 200 the mirror's document of that id still
\* has the name and age it had before.
C11_UpdateNotMirrored ==
  \A p \in Answered("update") :
    /\ mirror = pre.mirror
    /\ \A i \in Matches(mirror, req[p].id) :
         /\ mirror[i].Name = pre.mirror[i].Name
         /\ mirror[i].Age = pre.mirror[i].Age

\* an update answered 200 in the mirrored variant and the mirror's document
\* of that id now differs from the record in users
C11_Witness ==
  \E p \in Answered("update") :
    /\ variant = "B"
    /\ resp[p].status = StatusOK
    /\ Matches(mirror, req[p].id) # {}
    /\ mirror[Min(Matches(mirror, req[p].id))] # resp[p].body[1]
    /\ mirror[Min(Matches(mirror, req[p].id))]
         = pre.users[Min(Matches(pre.users, req[p].id))]

\* C12: a get, update or delete of an id that no record of users has answers
\* 404 and leaves users and nextID as they were.
C12_NotFoundFrame ==
  \A p \in Answered("get") \cup Answered("update") \cup Answered("delete") :
    LET id == IF req[p].op = "delete" THEN DeleteID(req[p]) ELSE req[p].id
    IN  Matches(pre.users, id) = {} =>
          /\ resp[p].status = StatusNotFound
          /\ users = pre.users
          /\ nextID = pre.nextID

\* the records of the scenario of C13
Ann30 == User(1, "Ann", 30)
Ann31 == User(1, "Ann", 31)

\* C13: on an empty store with no earlier create, create {Ann,30} answers 201
\* with {1,Ann,30}; then get(1) answers 200 with {1,Ann,30}; then
\* update(1,{Ann,31}) answers {1,Ann,31}; then delete(1) answers 204; then
\* get(1) answers 404.  Each step starts in the state the step before it
\* leaves.  In the mirrored variant the steps are those whose mirror call
\* succeeded.
C13_Scenario ==
  /\ \A p \in Answered("create") :
       ( /\ pre.users = <<>>
         /\ pre.mirror = <<>>
         /\ Len(issued) + Len(burned) = 1
         /\ req[p].user.Name = "Ann"
         /\ req[p].user.Age = 30
         /\ variant = "B" => mirror # pre.mirror )
       => /\ resp[p] = Resp(StatusCreated, << Ann30 >>)
          /\ users = << Ann30 >>
  /\ \A p \in Answered("get") :
       (req[p].id = 1 /\ pre.users = << Ann30 >>)
       => resp[p] = Resp(StatusOK, << Ann30 >>)
  /\ \A p \in Answered("update") :
       ( /\ req[p].id = 1
         /\ req[p].user.Name = "Ann"
         /\ req[p].user.Age = 31
         /\ pre.users = << Ann30 >> )
       => /\ resp[p] = Resp(StatusOK, << Ann31 >>)
          /\ users = << Ann31 >>
  /\ \A p \in Answered("delete") :
       ( /\ DeleteID(req[p]) = 1
         /\ pre.users = << Ann31 >>
         /\ variant = "B" => pre.mirror = << Ann30 >> )
       => /\ resp[p].status = StatusNoContent
          /\ users = <<>>
  /\ \A p \in Answered("get") :
       (req[p].id = 1 /\ pre.users = <<>>)
       => resp[p].status = StatusNotFound

\* the one record ever created, {1,Ann,30}, was updated to {1,Ann,31} and
\* its delete has just answered 204
C13_Witness ==
  \E p \in Answered("delete") :
    /\ DeleteID(req[p]) = 1
    /\ pre.users = << Ann31 >>
    /\ issued = << 1 >>
    /\ burned = <<>>
    /\ pre.nextID = 2
    /\ resp[p].status = StatusNoContent
    /\ users = <<>>

C15_NoRetry ==
  \A p \in Handlers :
    /\ mcalls[p] <= 1
    /\ variant = "A" => mcalls[p] = 0
    /\ (variant = "B" /\ p \in Answered("create")) =>
         /\ mcalls[p] = 1
         /\ resp[p].status = StatusInternalServerError => mirror = pre.mirror
    /\ (variant = "B" /\ p \in Answered("delete")) => mcalls[p] = 1
    /\ (phase = "dead" /\ pc[p] = "d_del") => mcalls[p] = 1

\* the process ended at a failed DeleteOne, after one call, and an earlier
\* create had answered 500 for a failed insert
C15_Witness ==
  \E p \in Handlers :
    /\ phase = "dead"
    /\ pc[p] = "d_del"
    /\ mcalls[p] = 1
    /\ burned # <<>>

\* C16: nextID is greater than the id of every record of users.
C16_CounterAboveRecords ==
  \A i \in 1..Len(users) : users[i].ID < nextID

\* C17: a create that answered 500 leaves nextID one above the value it
\* found, the id it drew being that value; no id drawn by a failed create is
\* returned by, or in the hands of, another create, and nextID stays above it.
C17_FailedCreateBurnsId ==
  /\ \A p \in Answered("create") :
       resp[p].status = StatusInternalServerError =>
         /\ nextID = pre.nextID + 1
         /\ req[p].user.ID = pre.nextID
  /\ \A i \in 1..Len(burned) :
       /\ burned[i] < nextID
       /\ burned[i] \notin Range(issued)
       /\ burned[i] \notin InFlightIDs

\* a create failed at the mirror with id 1 and the next create returned 2
C17_Witness ==
  /\ burned = << 1 >>
  /\ issued = << 2 >>
  /\ nextID = 3
  /\ \E p \in Answered("create") : resp[p].status = StatusCreated

\* C18: a mirrored delete whose DeleteOne removed a document runs the
\* removal loop to its end without a slice bounds panic, answers 204 and
\* has removed exactly one record from users.
C18_LoopRemovesOne ==
  \A p \in Answered("delete") :
    (variant = "B" /\ mirror # pre.mirror) =>
      /\ resp[p].status = StatusNoContent
      /\ Len(mirror) = Len(pre.mirror) - 1
      /\ Len(users) = Len(pre.users) - 1

\* ------------------------------------------------------------ fairness
\* Goroutines are scheduled fairly, so a handler's next statement is
\* eventually executed; sync.Mutex hands the lock to a waiter that has
\* waited long (starvation mode), so a handler that keeps finding the lock
\* free at times eventually gets it; a mirror call eventually returns, with
\* a result or with an error.  Clients are not obliged to send requests.
HandlerFairness(p) ==
  /\ SF_vars(Lock(p))
  /\ WF_vars(Unlock(p))
  /\ WF_vars(Return(p))
  /\ WF_vars(GetUsers(p))
  /\ WF_vars(GetUserStep(p))
  /\ WF_vars(CreateAssign(p))
  /\ WF_vars(CreateIncr(p))
  /\ WF_vars(CreateInsertOK(p) \/ CreateInsertFail(p))
  /\ WF_vars(CreateAppend(p))
  /\ WF_vars(UpdateUser(p))
  /\ WF_vars(DeleteUserA(p))
  /\ WF_vars(DeleteOneOK(p) \/ DeleteOneFail(p))
  /\ WF_vars(DeleteLoopStep(p))

FairSpec ==
  /\ Spec
  /\ WF_vars(Startup \/ StartupFail)
  /\ \A p \in Handlers : HandlerFairness(p)

\* C19: every request that waits for the lock eventually acquires it and
\* completes (its handler returns and has released the lock).
C19_WaitersComplete ==
  \A p \in Handlers : (pc[p] = "lock") ~> (pc[p] = "idle")

====
